---- MODULE Spec2Model ----
(***************************************************************************)
(* Vision-query adapter of exif-photo-blog: provider selection at module   *)
(* load, request construction, and the three query operations.             *)
(*                                                                         *)
(* Two source files define the adapter:                                    *)
(*   "part_000"  - the module with normalizeBaseUrl (src/unnamed/part_000) *)
(*   "openai.ts" - src/src/platforms/openai.ts                             *)
(* The variable `file` says which of the two modules the process loaded.   *)
(*                                                                         *)
(* JavaScript strings are sequences of one-character strings, so that      *)
(* startsWith / endsWith / includes / replace are computed, not assumed.   *)
(***************************************************************************)
EXTENDS Integers, Sequences, FiniteSets, TLC

VARIABLES
    file,       \* which source file is the loaded module
    env,        \* the values @/app/config exports (environment configuration)
    module,     \* the module-level constants once the module is evaluated
    console,    \* console.warn lines emitted so far
    calls,      \* per call: position and locals of the async function
    streams,    \* per call: the streamable value created by the call
    provider    \* per call: requests issued to the AI SDK and what it delivered

vars == <<file, env, module, console, calls, streams, provider>>

----------------------------------------------------------------------------
(* JavaScript values *)

undefined == [t |-> "undefined"]

Str(s) == [t |-> "string", s |-> s]

Bool(b) == [t |-> "boolean", b |-> b]

IsStr(v) == v.t = "string"

\* ToBoolean: undefined, '' and false are falsy; objects are truthy
Truthy(v) ==
    CASE v.t = "undefined" -> FALSE
      [] v.t = "string" -> v.s # <<>>
      [] v.t = "boolean" -> v.b
      [] OTHER -> TRUE

\* a && b
JsAnd(a, b) == IF Truthy(a) THEN b ELSE a

\* a || b
JsOr(a, b) == IF Truthy(a) THEN a ELSE b

\* String.prototype.startsWith / endsWith / includes on character sequences
StartsWith(s, p) == Len(s) >= Len(p) /\ SubSeq(s, 1, Len(p)) = p

EndsWith(s, p) == Len(s) >= Len(p) /\ SubSeq(s, Len(s) - Len(p) + 1, Len(s)) = p

Includes(s, p) == \E i \in 1..(Len(s) - Len(p) + 1) : SubSeq(s, i, i + Len(p) - 1) = p

\* url?.includes(p): undefined when url is undefined
OptIncludes(v, p) == IF IsStr(v) THEN Bool(Includes(v.s, p)) ELSE undefined

----------------------------------------------------------------------------
(* String literals of the source *)

sHttp == <<"h","t","t","p",":","/","/">>
sHttps == <<"h","t","t","p","s",":","/","/">>
sSlashV1 == <<"/","v","1">>
sV1 == <<"v","1">>
sSlash == <<"/">>
sDeepseek == <<"d","e","e","p","s","e","e","k">>

OPENAI_MODEL == "gpt-5.1"
DEEPSEEK_MODEL == "deepseek-chat"

----------------------------------------------------------------------------
(* new URL(url) for the http/https URLs the code hands to it:              *)
(* scheme, host up to the first "/", "?" or "#", path up to "?", the rest  *)
(* is the query.  An empty host or a host with a forbidden code point is a *)
(* TypeError.  An empty path of a special scheme is "/".                   *)

ForbiddenHostChars == {" ", "<", ">", "[", "]", "^", "|", "%"}

FirstIndexIn(s, cs) ==
    IF \E i \in 1..Len(s) : s[i] \in cs
    THEN CHOOSE i \in 1..Len(s) : s[i] \in cs /\ \A j \in 1..(i - 1) : s[j] \notin cs
    ELSE Len(s) + 1

URL(url) ==
    LET scheme == IF StartsWith(url, sHttps) THEN sHttps ELSE sHttp
        rest == SubSeq(url, Len(scheme) + 1, Len(url))
        hostEnd == FirstIndexIn(rest, {"/", "?", "#"})
        host == SubSeq(rest, 1, hostEnd - 1)
        tail == SubSeq(rest, hostEnd, Len(rest))
        pathEnd == FirstIndexIn(tail, {"?", "#"})
        path == SubSeq(tail, 1, pathEnd - 1)
    IN [ok |-> host # <<>> /\ \A i \in 1..Len(host) : host[i] \notin ForbiddenHostChars,
        scheme |-> scheme,
        host |-> host,
        pathname |-> IF path = <<>> THEN sSlash ELSE path,
        search |-> SubSeq(tail, pathEnd, Len(tail))]

\* URL.prototype.toString(): the serialised href
URLtoString(u) == u.scheme \o u.host \o u.pathname \o u.search

----------------------------------------------------------------------------
(* part_000: normalizeBaseUrl *)

MissingProtocol(url) == ~StartsWith(url, sHttp) /\ ~StartsWith(url, sHttps)

\* the value normalizeBaseUrl returns
normalizeBaseUrl(url, prov) ==
    IF ~Truthy(url) THEN undefined
    ELSE IF MissingProtocol(url.s) THEN undefined
    ELSE LET parsed == URL(url.s) IN
         IF ~parsed.ok THEN undefined
         ELSE IF prov = "deepseek" /\ ~EndsWith(parsed.pathname, sSlashV1)
              THEN Str(URLtoString([parsed EXCEPT !.pathname =
                        IF EndsWith(parsed.pathname, sSlash)
                        THEN parsed.pathname \o sV1
                        ELSE parsed.pathname \o sSlashV1]))
              ELSE url

\* the console.warn lines normalizeBaseUrl emits
normalizeBaseUrlWarn(url, prov) ==
    IF ~Truthy(url) THEN <<>>
    ELSE IF MissingProtocol(url.s) THEN << <<"missing protocol", prov, url>> >>
    ELSE IF ~URL(url.s).ok THEN << <<"parse error", prov, url>> >>
    ELSE <<>>

----------------------------------------------------------------------------
(* AI SDK provider factories: the handle records what it was created with *)

createOpenAI(apiKey, baseURL) ==
    [t |-> "client", provider |-> "openai", apiKey |-> apiKey, baseURL |-> baseURL]

createDeepSeek(apiKey, baseURL) ==
    [t |-> "client", provider |-> "deepseek", apiKey |-> apiKey, baseURL |-> baseURL]

\* ...cond && { baseURL: v }: the option is present only when cond is truthy
SpreadBaseURL(cond, v) == IF Truthy(cond) THEN v ELSE undefined

----------------------------------------------------------------------------
(* part_000: module-level constants, as functions of the configuration e *)

normalizedDeepseekBaseUrl(e) == normalizeBaseUrl(e.DEEPSEEK_BASE_URL, "deepseek")

normalizedOpenaiBaseUrl(e) == normalizeBaseUrl(e.OPENAI_BASE_URL, "openai")

IS_DEEPSEEK(e) == JsAnd(e.DEEPSEEK_API_KEY, Bool(Truthy(normalizedDeepseekBaseUrl(e))))

safeOpenaiBaseUrl(e) ==
    IF Truthy(JsAnd(normalizedOpenaiBaseUrl(e),
                    Bool(~Includes(normalizedOpenaiBaseUrl(e).s, sDeepseek))))
    THEN normalizedOpenaiBaseUrl(e)
    ELSE undefined

openai(e) ==
    IF Truthy(e.OPENAI_SECRET_KEY)
    THEN createOpenAI(e.OPENAI_SECRET_KEY,
                      SpreadBaseURL(safeOpenaiBaseUrl(e), safeOpenaiBaseUrl(e)))
    ELSE undefined

deepseek(e) ==
    IF Truthy(JsAnd(e.DEEPSEEK_API_KEY, normalizedDeepseekBaseUrl(e)))
    THEN createDeepSeek(e.DEEPSEEK_API_KEY, normalizedDeepseekBaseUrl(e))
    ELSE undefined

aiClient(e) == IF Truthy(IS_DEEPSEEK(e)) THEN deepseek(e) ELSE openai(e)

MODEL(e) == IF Truthy(IS_DEEPSEEK(e)) THEN DEEPSEEK_MODEL ELSE OPENAI_MODEL

----------------------------------------------------------------------------
(* openai.ts: module-level constants, as functions of the configuration e *)

IS_DEEPSEEK_openai_ts(e) ==
    JsAnd(e.DEEPSEEK_API_KEY,
          JsOr(OptIncludes(e.DEEPSEEK_BASE_URL, sDeepseek),
               OptIncludes(e.OPENAI_BASE_URL, sDeepseek)))

openai_openai_ts(e) ==
    IF Truthy(e.OPENAI_SECRET_KEY)
    THEN createOpenAI(e.OPENAI_SECRET_KEY,
                      SpreadBaseURL(e.OPENAI_BASE_URL, e.OPENAI_BASE_URL))
    ELSE undefined

deepseek_openai_ts(e) ==
    IF Truthy(e.AI_SECRET_KEY)
    THEN createDeepSeek(e.AI_SECRET_KEY, SpreadBaseURL(e.AI_BASE_URL, e.AI_BASE_URL))
    ELSE undefined

aiClient_openai_ts(e) ==
    IF Truthy(IS_DEEPSEEK_openai_ts(e)) THEN deepseek_openai_ts(e) ELSE openai_openai_ts(e)

MODEL_openai_ts(e) ==
    IF Truthy(IS_DEEPSEEK_openai_ts(e)) THEN DEEPSEEK_MODEL ELSE OPENAI_MODEL

\* the bindings the top-level statements of file f leave behind and what they log
ModuleBindings(f, e) ==
    IF f = "part_000"
    THEN [loaded |-> TRUE,
          normalizedDeepseekBaseUrl |-> normalizedDeepseekBaseUrl(e),
          normalizedOpenaiBaseUrl |-> normalizedOpenaiBaseUrl(e),
          IS_DEEPSEEK |-> IS_DEEPSEEK(e),
          safeOpenaiBaseUrl |-> safeOpenaiBaseUrl(e),
          openai |-> openai(e),
          deepseek |-> deepseek(e),
          aiClient |-> aiClient(e),
          MODEL |-> MODEL(e)]
    ELSE [loaded |-> TRUE,
          IS_DEEPSEEK |-> IS_DEEPSEEK_openai_ts(e),
          openai |-> openai_openai_ts(e),
          deepseek |-> deepseek_openai_ts(e),
          aiClient |-> aiClient_openai_ts(e),
          MODEL |-> MODEL_openai_ts(e)]

ModuleWarnings(f, e) ==
    IF f = "part_000"
    THEN normalizeBaseUrlWarn(e.DEEPSEEK_BASE_URL, "deepseek")
         \o normalizeBaseUrlWarn(e.OPENAI_BASE_URL, "openai")
    ELSE <<>>

----------------------------------------------------------------------------
(* Collaborators imported from other modules of the repository *)

RECURSIVE ReplaceAll(_, _, _)
\* String.prototype.replaceAll(ch, rep) for a one-character pattern
ReplaceAll(s, ch, rep) ==
    IF s = <<>> THEN <<>>
    ELSE (IF Head(s) = ch THEN rep ELSE <<Head(s)>>) \o ReplaceAll(Tail(s), ch, rep)

\* String.prototype.replace(/\.$/, ''): drops one trailing full stop
DropTrailingDot(s) ==
    IF s # <<>> /\ s[Len(s)] = "." THEN SubSeq(s, 1, Len(s) - 1) ELSE s

\* @/photo/ai cleanUpAiTextResponse: newlines to spaces, double quotes removed,
\* one trailing full stop removed
cleanUpAiTextResponse(text) ==
    DropTrailingDot(ReplaceAll(ReplaceAll(text, "\n", <<" ">>), "\"", <<>>))

sPngPrefix ==
    <<"d","a","t","a",":","i","m","a","g","e","/","p","n","g",";","b","a","s","e","6","4",",">>
sJpegPrefix ==
    <<"d","a","t","a",":","i","m","a","g","e","/","j","p","e","g",";","b","a","s","e","6","4",",">>

KnownPrefixes == {sPngPrefix, sJpegPrefix}

\* @/utility/image removeBase64Prefix: the payload after a data-URL prefix,
\* the string itself when it carries none
removeBase64Prefix(base64) ==
    IF \E p \in KnownPrefixes : StartsWith(base64, p) /\ Len(base64) > Len(p)
    THEN LET p == CHOOSE q \in KnownPrefixes : StartsWith(base64, q)
         IN SubSeq(base64, Len(p) + 1, Len(base64))
    ELSE base64

----------------------------------------------------------------------------
(* Bounds and input sets *)

NumCalls == 2        \* concurrent invocations of the query operations
MaxFragments == 2    \* fragments a provider's text stream delivers at most

CallIds == 1..NumCalls

sOpenaiHost == <<"a","p","i",".","o","p","e","n","a","i",".","c","o","m">>
sDeepseekHost == <<"a","p","i",".","d","e","e","p","s","e","e","k",".","c","o","m">>
sBeta == <<"/","b","e","t","a">>
sQuery == <<"?","k","=","1">>

sKeyO == <<"s","k","-","o">>
sKeyD == <<"s","k","-","d">>

OpenaiKeys == {undefined, Str(<<>>), Str(sKeyO)}
DeepseekKeys == {undefined, Str(<<>>), Str(sKeyD)}
AiKeys == {undefined, Str(<<"s","k","-","a">>)}

DeepseekUrls ==
    {undefined,
     Str(<<>>),
     Str(sDeepseekHost),                                  \* no protocol
     Str(sHttps),                                         \* empty host
     Str(sHttps \o <<"a"," ","b">>),                      \* space in host
     Str(sHttps \o sDeepseekHost),
     Str(sHttps \o sDeepseekHost \o sSlash),
     Str(sHttps \o sDeepseekHost \o sSlashV1),
     Str(sHttps \o sDeepseekHost \o sSlashV1 \o sSlash),
     Str(sHttps \o sDeepseekHost \o sBeta),
     Str(sHttp \o sDeepseekHost \o sBeta \o sSlash \o sQuery),
     Str(sHttp \o <<"l","l","m",".","i","o">> \o sSlashV1 \o sQuery)}

OpenaiUrls ==
    {undefined,
     Str(sOpenaiHost \o sSlashV1),                        \* no protocol
     Str(sHttps \o <<"?">>),                              \* empty host
     Str(sHttps \o sOpenaiHost \o sSlashV1),
     Str(sHttps \o sDeepseekHost \o sSlashV1),
     Str(sHttp \o <<"l","l","m",".","i","o">>)}

AiUrls ==
    {undefined,
     Str(sDeepseekHost),                                  \* no protocol
     Str(sHttps \o sDeepseekHost)}

Files == {"part_000", "openai.ts"}

Images == {sPngPrefix \o <<"Q","k","=">>, <<"Q","k","=">>}
Queries == {<<"t","i","t","l","e","?">>, <<"t","a","g","s","?">>}
Deltas == {<<"a",".">>, <<"\"","b","\n","c",".",".">>}
ProviderObjects ==
    {undefined,
     [t |-> "object", entries |-> << <<"title", <<"a",".">> >> >>],
     [t |-> "object", entries |-> << <<"title", <<"\"","b","\n","c",".",".">> >>,
                                     <<"tags", <<"a",".">> >> >>]}

----------------------------------------------------------------------------
(* Initial states *)

NoCall ==
    [pc |-> "idle", op |-> "none", imageBase64 |-> <<>>, query |-> <<>>,
     isBatch |-> undefined, limiter |-> undefined, rateLimit |-> "none",
     result |-> undefined, error |-> "none"]

NoStream == [created |-> FALSE, value |-> <<>>, updates |-> <<>>, done |-> 0]

NoProvider == [requests |-> <<>>, textStream |-> <<>>, task |-> "none", response |-> undefined]

InitRuntime ==
    /\ module = [loaded |-> FALSE]
    /\ console = <<>>
    /\ calls = [c \in CallIds |-> NoCall]
    /\ streams = [c \in CallIds |-> NoStream]
    /\ provider = [c \in CallIds |-> NoProvider]

Config(osk, obu, dak, dbu, ask, abu) ==
    [OPENAI_SECRET_KEY |-> osk, OPENAI_BASE_URL |-> obu,
     DEEPSEEK_API_KEY |-> dak, DEEPSEEK_BASE_URL |-> dbu,
     AI_SECRET_KEY |-> ask, AI_BASE_URL |-> abu]

\* every configuration of the bounded sets; openai.ts alone imports
\* AI_SECRET_KEY / AI_BASE_URL
InitConfig ==
    /\ file \in Files
    /\ \E osk \in OpenaiKeys, obu \in OpenaiUrls, dak \in DeepseekKeys, dbu \in DeepseekUrls,
          ask \in (IF file = "openai.ts" THEN AiKeys ELSE {undefined}),
          abu \in (IF file = "openai.ts" THEN AiUrls ELSE {undefined}) :
          env = Config(osk, obu, dak, dbu, ask, abu)
    /\ InitRuntime

\* the configurations the query operations are run under: for each file one with
\* an active provider and one with none
RequestEnvs ==
    {<<"part_000", Config(Str(sKeyO), undefined, Str(sKeyD), Str(sHttps \o sDeepseekHost),
                          undefined, undefined)>>,
     <<"part_000", Config(undefined, undefined, Str(sKeyD), Str(sDeepseekHost),
                          undefined, undefined)>>,
     <<"openai.ts", Config(Str(sKeyO), Str(sHttps \o sOpenaiHost \o sSlashV1),
                           undefined, undefined, undefined, undefined)>>,
     <<"openai.ts", Config(Str(sKeyO), undefined, Str(sKeyD), Str(sHttps \o sDeepseekHost),
                           undefined, undefined)>>}

Init ==
    /\ \E fe \in RequestEnvs : file = fe[1] /\ env = fe[2]
    /\ InitRuntime

----------------------------------------------------------------------------
(* Module evaluation: the top-level statements of the loaded file *)

LoadModule ==
    /\ ~module.loaded
    /\ module' = ModuleBindings(file, env)
    /\ console' = console \o ModuleWarnings(file, env)
    /\ UNCHANGED <<file, env, calls, streams, provider>>

----------------------------------------------------------------------------
(* Request construction *)

\* aiClient(MODEL): the language-model handle of a client
LanguageModel(client, modelId) ==
    [provider |-> client.provider, modelId |-> modelId,
     apiKey |-> client.apiKey, baseURL |-> client.baseURL]

getImageTextArgs(imageBase64, query) ==
    IF Truthy(module.aiClient)
    THEN [t |-> "args",
          model |-> LanguageModel(module.aiClient, module.MODEL),
          messages |-> << [role |-> "user",
                           content |-> << [type |-> "text", text |-> query],
                                          [type |-> "image",
                                           image |-> removeBase64Prefix(imageBase64)] >>] >>]
    ELSE undefined

\* variant: the inline descriptor passes the payload on with its prefix
ObjectArgs_raw(imageBase64, query, schema) ==
    [t |-> "args",
     model |-> LanguageModel(module.aiClient, module.MODEL),
     messages |-> << [role |-> "user",
                      content |-> << [type |-> "text", text |-> query],
                                     [type |-> "image", image |-> imageBase64] >>] >>,
     schema |-> schema]

\* the descriptor generateOpenAiImageObjectQuery builds inline
ObjectArgs(imageBase64, query, schema) ==
    [t |-> "args",
     model |-> LanguageModel(module.aiClient, module.MODEL),
     messages |-> << [role |-> "user",
                      content |-> << [type |-> "text", text |-> query],
                                     [type |-> "image",
                                      image |-> removeBase64Prefix(imageBase64)] >>] >>,
     schema |-> schema]

\* the argument the wrapper passes to the rate limiter
checkRateLimitAndThrow(isBatch) ==
    IF Truthy(isBatch)
    THEN [identifier |-> "openai-image-query", tokens |-> 1200, duration |-> "1d"]
    ELSE [identifier |-> "openai-image-query"]

IsBatchValues == {undefined, Bool(TRUE)}
Schemas == {"schema"}

RateLimitError == "rate limit exceeded"
NoClientError == "No AI client available"
ProviderError == "provider error"

----------------------------------------------------------------------------
(* The query operations.  Each async function is split at its awaits: the  *)
(* invocation runs up to `await checkRateLimitAndThrow(..)`; the part after *)
(* the await runs when the limiter's promise fulfils; a rejection of the    *)
(* awaited promise rejects the call.                                        *)

\* the synchronous prefix common to the three functions: call the limiter, suspend
Invoke(c, op, imageBase64, query, isBatch) ==
    /\ module.loaded
    /\ calls[c].pc = "idle"
    /\ calls' = [calls EXCEPT ![c] =
                   [@ EXCEPT !.pc = "rateLimit", !.op = op,
                             !.imageBase64 = imageBase64, !.query = query,
                             !.isBatch = isBatch,
                             !.limiter = checkRateLimitAndThrow(isBatch),
                             !.rateLimit = "pending"]]
    /\ UNCHANGED <<file, env, module, console, streams, provider>>

\* _checkRateLimitAndThrow throws: the budget is exceeded
rateLimitExceeded(c) ==
    /\ calls[c].pc = "rateLimit"
    /\ calls' = [calls EXCEPT ![c] =
                   [@ EXCEPT !.pc = "rejected", !.rateLimit = "exceeded",
                             !.error = RateLimitError]]
    /\ UNCHANGED <<file, env, module, console, streams, provider>>

streamOpenAiImageQuery(c, imageBase64, query) ==
    Invoke(c, "stream", imageBase64, query, undefined)

\* the rest of the function: create the streamable value, start the detached task when there
\* are args (it runs up to its first await: streamText is called), return stream.value
streamOpenAiImageQuery_afterRateLimit(c) ==
    /\ calls[c].pc = "rateLimit"
    /\ calls[c].op = "stream"
    /\ LET args == getImageTextArgs(calls[c].imageBase64, calls[c].query) IN
         /\ streams' = [streams EXCEPT ![c] = [NoStream EXCEPT !.created = TRUE]]
         /\ provider' =
              IF Truthy(args)
              THEN [provider EXCEPT ![c] =
                      [@ EXCEPT !.requests = Append(@, [fn |-> "streamText", args |-> args]),
                                !.task = "iterating"]]
              ELSE provider
         /\ calls' = [calls EXCEPT ![c] =
                        [@ EXCEPT !.pc = "resolved", !.rateLimit = "ok",
                                  !.result = [t |-> "streamable", stream |-> c]]]
    /\ UNCHANGED <<file, env, module, console>>

\* variant: the streamable value is kept in one module-level binding, so an update
\* reaches the value created last
streamTask_delta_shared(c, delta) ==
    /\ provider[c].task = "iterating"
    /\ Len(provider[c].textStream) < MaxFragments
    /\ provider' = [provider EXCEPT ![c] = [@ EXCEPT !.textStream = Append(@, delta)]]
    /\ LET last == CHOOSE d \in CallIds :
                      streams[d].created /\ \A x \in CallIds : streams[x].created => x <= d
       IN streams' = [streams EXCEPT ![last] =
                        [@ EXCEPT !.value = cleanUpAiTextResponse(delta),
                                  !.updates = Append(@, cleanUpAiTextResponse(delta))]]
    /\ UNCHANGED <<file, env, module, console, calls>>

\* one iteration of `for await (const delta of textStream)`
streamTask_delta(c, delta) ==
    /\ provider[c].task = "iterating"
    /\ Len(provider[c].textStream) < MaxFragments
    /\ provider' = [provider EXCEPT ![c] = [@ EXCEPT !.textStream = Append(@, delta)]]
    /\ streams' = [streams EXCEPT ![c] =
                     [@ EXCEPT !.value = cleanUpAiTextResponse(delta),
                               !.updates = Append(@, cleanUpAiTextResponse(delta))]]
    /\ UNCHANGED <<file, env, module, console, calls>>

\* the fragment sequence ends: stream.done()
streamTask_end(c) ==
    /\ provider[c].task = "iterating"
    /\ provider' = [provider EXCEPT ![c] = [@ EXCEPT !.task = "finished"]]
    /\ streams' = [streams EXCEPT ![c] = [@ EXCEPT !.done = @ + 1]]
    /\ UNCHANGED <<file, env, module, console, calls>>

\* streamText or the iteration throws: the detached async function rejects and
\* nothing handles the rejection
streamTask_fail(c) ==
    /\ provider[c].task = "iterating"
    /\ provider' = [provider EXCEPT ![c] = [@ EXCEPT !.task = "failed"]]
    /\ UNCHANGED <<file, env, module, console, calls, streams>>

generateOpenAiImageQuery(c, imageBase64, query, isBatch) ==
    Invoke(c, "text", imageBase64, query, isBatch)

\* the rest of the function: build the args, call generateText when there are args
generateOpenAiImageQuery_afterRateLimit(c) ==
    /\ calls[c].pc = "rateLimit"
    /\ calls[c].op = "text"
    /\ LET args == getImageTextArgs(calls[c].imageBase64, calls[c].query) IN
         IF Truthy(args)
         THEN /\ provider' = [provider EXCEPT ![c] =
                      [@ EXCEPT !.requests = Append(@, [fn |-> "generateText", args |-> args])]]
              /\ calls' = [calls EXCEPT ![c] = [@ EXCEPT !.pc = "provider", !.rateLimit = "ok"]]
         ELSE /\ provider' = provider
              /\ calls' = [calls EXCEPT ![c] =
                             [@ EXCEPT !.pc = "resolved", !.rateLimit = "ok",
                                       !.result = undefined]]
    /\ UNCHANGED <<file, env, module, console, streams>>

\* variant: the text is returned as the provider sent it
generateText_then_raw(c, text) ==
    /\ calls[c].pc = "provider"
    /\ calls[c].op = "text"
    /\ provider' = [provider EXCEPT ![c] = [@ EXCEPT !.response = Str(text)]]
    /\ calls' = [calls EXCEPT ![c] = [@ EXCEPT !.pc = "resolved", !.result = Str(text)]]
    /\ UNCHANGED <<file, env, module, console, streams>>

\* .then(({ text }) => cleanUpAiTextResponse(text))
generateText_then(c, text) ==
    /\ calls[c].pc = "provider"
    /\ calls[c].op = "text"
    /\ provider' = [provider EXCEPT ![c] = [@ EXCEPT !.response = Str(text)]]
    /\ calls' = [calls EXCEPT ![c] =
                   [@ EXCEPT !.pc = "resolved", !.result = Str(cleanUpAiTextResponse(text))]]
    /\ UNCHANGED <<file, env, module, console, streams>>

\* variant: the provider-availability check comes before the rate-limit check
generateOpenAiImageObjectQuery_clientFirst(c, imageBase64, query, isBatch) ==
    IF module.loaded /\ ~Truthy(module.aiClient)
    THEN /\ calls[c].pc = "idle"
         /\ calls' = [calls EXCEPT ![c] =
                        [@ EXCEPT !.pc = "rejected", !.op = "object",
                                  !.imageBase64 = imageBase64, !.query = query,
                                  !.isBatch = isBatch, !.error = NoClientError]]
         /\ UNCHANGED <<file, env, module, console, streams, provider>>
    ELSE Invoke(c, "object", imageBase64, query, isBatch)

generateOpenAiImageObjectQuery(c, imageBase64, query, isBatch) ==
    Invoke(c, "object", imageBase64, query, isBatch)

\* variant: without a client the structured operation returns nothing, as the text
\* operations do
generateOpenAiImageObjectQuery_afterRateLimit_silent(c, schema) ==
    /\ calls[c].pc = "rateLimit"
    /\ calls[c].op = "object"
    /\ IF Truthy(module.aiClient)
       THEN /\ provider' = [provider EXCEPT ![c] =
                    [@ EXCEPT !.requests = Append(@,
                        [fn |-> "generateObject",
                         args |-> ObjectArgs(calls[c].imageBase64, calls[c].query, schema)])]]
            /\ calls' = [calls EXCEPT ![c] = [@ EXCEPT !.pc = "provider", !.rateLimit = "ok"]]
       ELSE /\ provider' = provider
            /\ calls' = [calls EXCEPT ![c] =
                           [@ EXCEPT !.pc = "resolved", !.rateLimit = "ok",
                                     !.result = undefined]]
    /\ UNCHANGED <<file, env, module, console, streams>>

\* the rest of the function: the client check, generateObject, or the throw
generateOpenAiImageObjectQuery_afterRateLimit(c, schema) ==
    /\ calls[c].pc = "rateLimit"
    /\ calls[c].op = "object"
    /\ IF Truthy(module.aiClient)
       THEN /\ provider' = [provider EXCEPT ![c] =
                    [@ EXCEPT !.requests = Append(@,
                        [fn |-> "generateObject",
                         args |-> ObjectArgs(calls[c].imageBase64, calls[c].query, schema)])]]
            /\ calls' = [calls EXCEPT ![c] = [@ EXCEPT !.pc = "provider", !.rateLimit = "ok"]]
       ELSE /\ provider' = provider
            /\ calls' = [calls EXCEPT ![c] =
                           [@ EXCEPT !.pc = "rejected", !.rateLimit = "ok",
                                     !.error = NoClientError]]
    /\ UNCHANGED <<file, env, module, console, streams>>

\* Object.entries(result.object || {})
ObjectEntries(object) == IF Truthy(object) THEN object.entries ELSE <<>>

\* Object.fromEntries(entries.map(([k, v]) => [k, cleanUpAiTextResponse(v)]))
CleanEntries(entries) ==
    [t |-> "object",
     entries |-> [i \in 1..Len(entries) |->
                    <<entries[i][1], cleanUpAiTextResponse(entries[i][2])>>]]

generateObject_then(c, object) ==
    /\ calls[c].pc = "provider"
    /\ calls[c].op = "object"
    /\ provider' = [provider EXCEPT ![c] = [@ EXCEPT !.response = object]]
    /\ calls' = [calls EXCEPT ![c] =
                   [@ EXCEPT !.pc = "resolved", !.result = CleanEntries(ObjectEntries(object))]]
    /\ UNCHANGED <<file, env, module, console, streams>>

\* generateText / generateObject rejects: the call rejects with the provider's error
providerRejects(c) ==
    /\ calls[c].pc = "provider"
    /\ calls' = [calls EXCEPT ![c] = [@ EXCEPT !.pc = "rejected", !.error = ProviderError]]
    /\ UNCHANGED <<file, env, module, console, streams, provider>>

----------------------------------------------------------------------------
(* Specifications *)

Next ==
    \/ LoadModule
    \/ \E c \in CallIds, i \in Images, q \in Queries : streamOpenAiImageQuery(c, i, q)
    \/ \E c \in CallIds : streamOpenAiImageQuery_afterRateLimit(c)
    \/ \E c \in CallIds, d \in Deltas : streamTask_delta(c, d)
    \/ \E c \in CallIds : streamTask_end(c)
    \/ \E c \in CallIds : streamTask_fail(c)
    \/ \E c \in CallIds, i \in Images, q \in Queries, b \in IsBatchValues :
          generateOpenAiImageQuery(c, i, q, b)
    \/ \E c \in CallIds : generateOpenAiImageQuery_afterRateLimit(c)
    \/ \E c \in CallIds, d \in Deltas : generateText_then(c, d)
    \/ \E c \in CallIds, i \in Images, q \in Queries, b \in IsBatchValues :
          generateOpenAiImageObjectQuery(c, i, q, b)
    \/ \E c \in CallIds, s \in Schemas : generateOpenAiImageObjectQuery_afterRateLimit(c, s)
    \/ \E c \in CallIds, o \in ProviderObjects : generateObject_then(c, o)
    \/ \E c \in CallIds : providerRejects(c)
    \/ \E c \in CallIds : rateLimitExceeded(c)

Spec == Init /\ [][Next]_vars

NextConfig == LoadModule

SpecConfig == InitConfig /\ [][NextConfig]_vars

----------------------------------------------------------------------------
(* Properties of module initialisation (SpecConfig) *)

\* a base URL that passes both checks of normalizeBaseUrl
WellFormed(url) == Truthy(url) /\ ~MissingProtocol(url.s) /\ URL(url.s).ok

\* configured, but without http/https protocol or unparsable
Malformed(url) == Truthy(url) /\ ~WellFormed(url)

DeepseekConfigured == Truthy(env.DEEPSEEK_API_KEY) /\ WellFormed(env.DEEPSEEK_BASE_URL)

IsClientOf(client, prov) == Truthy(client) /\ client.provider = prov

Logged(kind, prov, url) == \E i \in 1..Len(console) : console[i] = <<kind, prov, url>>

LoggedMalformed(prov, url) ==
    Logged("missing protocol", prov, url) \/ Logged("parse error", prov, url)

\* C1: after initialisation the active client is the DeepSeek client with model
\* 'deepseek-chat' when DeepSeek is fully configured (key and well-formed base URL),
\* else the OpenAI client with model 'gpt-5.1' when OPENAI_SECRET_KEY is configured;
\* the active client is undefined only when neither provider is usable.
C1_ProviderSelection ==
    module.loaded =>
        /\ DeepseekConfigured =>
              IsClientOf(module.aiClient, "deepseek") /\ module.MODEL = DEEPSEEK_MODEL
        /\ (~DeepseekConfigured /\ Truthy(env.OPENAI_SECRET_KEY)) =>
              IsClientOf(module.aiClient, "openai") /\ module.MODEL = OPENAI_MODEL
        /\ ~Truthy(module.aiClient) =>
              ~DeepseekConfigured /\ ~Truthy(env.OPENAI_SECRET_KEY)

\* C7: a malformed base URL is logged and handled exactly as if that URL were not
\* configured: a malformed DeepSeek URL falls back to the OpenAI client (or to no
\* client without the OpenAI key), a malformed OpenAI URL leaves the OpenAI client
\* without a base URL, and no client is constructed with a malformed base URL.
C7_MalformedUrlIgnored ==
    module.loaded =>
        /\ Malformed(env.DEEPSEEK_BASE_URL) =>
              /\ module = ModuleBindings(file, [env EXCEPT !.DEEPSEEK_BASE_URL = undefined])
              /\ module.aiClient = module.openai
              /\ Truthy(module.aiClient) = Truthy(env.OPENAI_SECRET_KEY)
              /\ LoggedMalformed("deepseek", env.DEEPSEEK_BASE_URL)
        /\ Malformed(env.OPENAI_BASE_URL) =>
              /\ module = ModuleBindings(file, [env EXCEPT !.OPENAI_BASE_URL = undefined])
              /\ Truthy(module.openai) => module.openai.baseURL = undefined
              /\ LoggedMalformed("openai", env.OPENAI_BASE_URL)
        /\ \A client \in {module.openai, module.deepseek} :
              (Truthy(client) /\ client.baseURL # undefined) => WellFormed(client.baseURL)

PathOf(url) == URL(url.s).pathname

\* C8: for a well-formed URL, normalizeBaseUrl(url, 'deepseek') returns a URL whose
\* path ends with '/v1', a path that already is '/v1' or '/v1/' gets no second '/v1',
\* and normalising the result again returns it unchanged; with provider 'openai' a
\* well-formed URL is returned unchanged.
C8_NormalizeBaseUrl ==
    (module.loaded /\ file = "part_000") =>
        /\ WellFormed(env.DEEPSEEK_BASE_URL) =>
              LET n == module.normalizedDeepseekBaseUrl IN
              /\ WellFormed(n)
              /\ EndsWith(PathOf(n), sSlashV1)
              /\ PathOf(env.DEEPSEEK_BASE_URL) \in {sSlashV1, sSlashV1 \o sSlash} =>
                    ~Includes(PathOf(n), sSlashV1 \o sSlashV1)
              /\ normalizeBaseUrl(n, "deepseek") = n
        /\ WellFormed(env.OPENAI_BASE_URL) =>
              module.normalizedOpenaiBaseUrl = env.OPENAI_BASE_URL

SameOrigin(a, b) ==
    /\ WellFormed(a) /\ WellFormed(b)
    /\ URL(a.s).scheme = URL(b.s).scheme
    /\ URL(a.s).host = URL(b.s).host

\* C9: the OpenAI client never gets a base URL containing 'deepseek', the DeepSeek
\* client is built from DEEPSEEK_API_KEY and DEEPSEEK_BASE_URL only, and changing
\* OPENAI_BASE_URL never changes whether DeepSeek is selected.
C9_NoCrossProvider ==
    module.loaded =>
        /\ (Truthy(module.openai) /\ module.openai.baseURL # undefined) =>
              ~Includes(module.openai.baseURL.s, sDeepseek)
        /\ Truthy(module.deepseek) =>
              /\ module.deepseek.apiKey = env.DEEPSEEK_API_KEY
              /\ SameOrigin(module.deepseek.baseURL, env.DEEPSEEK_BASE_URL)
        /\ \A u \in OpenaiUrls :
              Truthy(ModuleBindings(file, [env EXCEPT !.OPENAI_BASE_URL = u]).IS_DEEPSEEK)
                  = Truthy(module.IS_DEEPSEEK)

----------------------------------------------------------------------------
(* Properties of the query operations (Spec) *)

NoProviderActive == module.loaded /\ ~Truthy(module.aiClient)

ProviderActive == module.loaded /\ Truthy(module.aiClient)

\* C2: until the rate-limit check of a call has passed, the call has issued no
\* provider request, created no streamable value, returned nothing and has not
\* reached the provider-availability check; a call whose limiter threw is rejected
\* with the limiter's error.
C2_RateLimitFirst ==
    \A c \in CallIds :
        /\ calls[c].rateLimit # "ok" =>
              /\ provider[c].requests = <<>>
              /\ provider[c].task = "none"
              /\ ~streams[c].created
              /\ calls[c].result = undefined
              /\ calls[c].pc # "resolved"
              /\ calls[c].error # NoClientError
        /\ calls[c].rateLimit = "exceeded" =>
              calls[c].pc = "rejected" /\ calls[c].error = RateLimitError

\* the structured operation hit an exceeded budget while no provider is active
C2_Witness ==
    \E c \in CallIds :
        /\ calls[c].op = "object"
        /\ calls[c].rateLimit = "exceeded"
        /\ NoProviderActive

\* C3 as stated: with no active provider and a passed rate-limit check, no request
\* is issued, both text operations return nothing and the structured one fails
\* with 'No AI client available'.
C3_NoProviderReturnsNothing ==
    \A c \in CallIds :
        (NoProviderActive /\ calls[c].rateLimit = "ok") =>
            /\ provider[c].requests = <<>>
            /\ calls[c].op \in {"text", "stream"} =>
                  calls[c].pc = "resolved" /\ calls[c].result = undefined
            /\ calls[c].op = "object" =>
                  calls[c].pc = "rejected" /\ calls[c].error = NoClientError

\* C3 amended: with no active provider and a passed rate-limit check, no request is
\* issued; the one-shot operation returns nothing, the streaming operation returns
\* its streamable value, which holds the initial empty string and is never updated,
\* and the structured one fails with 'No AI client available'.
C3_NoProvider ==
    \A c \in CallIds :
        (NoProviderActive /\ calls[c].rateLimit = "ok") =>
            /\ provider[c].requests = <<>>
            /\ provider[c].task = "none"
            /\ calls[c].op = "text" =>
                  calls[c].pc = "resolved" /\ calls[c].result = undefined
            /\ calls[c].op = "stream" =>
                  /\ calls[c].pc = "resolved"
                  /\ calls[c].result = [t |-> "streamable", stream |-> c]
                  /\ streams[c].created
                  /\ streams[c].value = <<>>
                  /\ streams[c].updates = <<>>
            /\ calls[c].op = "object" =>
                  calls[c].pc = "rejected" /\ calls[c].error = NoClientError

C3_Witness ==
    /\ NoProviderActive
    /\ \E c \in CallIds : calls[c].op = "stream" /\ calls[c].rateLimit = "ok"
    /\ \E c \in CallIds : calls[c].op \in {"text", "object"} /\ calls[c].rateLimit = "ok"

CleanedFragments(c) ==
    [i \in 1..Len(provider[c].textStream) |-> cleanUpAiTextResponse(provider[c].textStream[i])]

\* C4: the streamable value of a streaming call has received exactly the cleaned
\* fragments of its own call, in arrival order; it is marked done at most once, and
\* exactly when its own fragment sequence has ended; updates happen only after the
\* function has returned the value; once done it is never updated again.
C4_StreamUpdates ==
    /\ [](\A c \in CallIds :
            /\ streams[c].updates = CleanedFragments(c)
            /\ streams[c].done \in {0, 1}
            /\ (streams[c].done = 1) = (provider[c].task = "finished")
            /\ (streams[c].updates # <<>> \/ streams[c].done = 1) =>
                  /\ calls[c].op = "stream"
                  /\ calls[c].pc = "resolved"
                  /\ calls[c].result = [t |-> "streamable", stream |-> c]
            /\ provider[c].task = "iterating" => calls[c].pc = "resolved")
    /\ [][\A c \in CallIds :
            streams[c].done = 1 => streams'[c] = streams[c]]_vars

\* two streaming calls in flight with different fragment histories, one finished
C4_Witness ==
    \E c, d \in CallIds :
        /\ c # d
        /\ streams[c].done = 1
        /\ Len(provider[c].textStream) = MaxFragments
        /\ provider[d].task = "iterating"
        /\ provider[d].textStream # <<>>
        /\ provider[d].textStream # SubSeq(provider[c].textStream, 1, Len(provider[d].textStream))

\* C5: the one-shot result is cleanUp(text), every streamed update is cleanUp(delta)
\* of the corresponding fragment, and the structured result has the keys of the
\* provider's object with every value cleaned once (no object: an empty mapping).
C5_CleanedOnce ==
    \A c \in CallIds :
        /\ (calls[c].op = "text" /\ calls[c].pc = "resolved" /\ ProviderActive) =>
              calls[c].result = Str(cleanUpAiTextResponse(provider[c].response.s))
        /\ (calls[c].op = "stream") =>
              /\ Len(streams[c].updates) = Len(provider[c].textStream)
              /\ \A i \in 1..Len(streams[c].updates) :
                    streams[c].updates[i] = cleanUpAiTextResponse(provider[c].textStream[i])
              /\ streams[c].updates # <<>> =>
                    streams[c].value = streams[c].updates[Len(streams[c].updates)]
        /\ (calls[c].op = "object" /\ calls[c].pc = "resolved") =>
              LET got == calls[c].result.entries
                  sent == IF provider[c].response = undefined
                          THEN <<>> ELSE provider[c].response.entries
              IN /\ calls[c].result.t = "object"
                 /\ Len(got) = Len(sent)
                 /\ \A i \in 1..Len(got) :
                       /\ got[i][1] = sent[i][1]
                       /\ got[i][2] = cleanUpAiTextResponse(sent[i][2])

\* a text (or a value, or a fragment) that cleaning twice would change further was
\* delivered through each of the operations
NotIdempotentOn(text) ==
    cleanUpAiTextResponse(cleanUpAiTextResponse(text)) # cleanUpAiTextResponse(text)

C5_Witness ==
    \E c, d \in CallIds :
        /\ calls[c].op \in {"text", "object"}
        /\ calls[c].pc = "resolved"
        /\ provider[c].response # undefined
        /\ IF calls[c].op = "text"
           THEN NotIdempotentOn(provider[c].response.s)
           ELSE \E i \in 1..Len(provider[c].response.entries) :
                   NotIdempotentOn(provider[c].response.entries[i][2])
        /\ calls[d].op = "stream"
        /\ \E i \in 1..Len(provider[d].textStream) : NotIdempotentOn(provider[d].textStream[i])

\* C6: every call issues at most one request; its messages are one user message of
\* a text segment equal to the prompt followed by an image segment equal to the
\* payload without its data-URL prefix; the structured operation's descriptor has
\* the model and messages getImageTextArgs builds.
C6_RequestShape ==
    \A c \in CallIds :
        /\ Len(provider[c].requests) <= 1
        /\ \A i \in 1..Len(provider[c].requests) :
              LET args == provider[c].requests[i].args
                  content == args.messages[1].content
              IN /\ Len(args.messages) = 1
                 /\ args.messages[1].role = "user"
                 /\ Len(content) = 2
                 /\ content[1] = [type |-> "text", text |-> calls[c].query]
                 /\ content[2].type = "image"
                 /\ calls[c].imageBase64 \in
                       {content[2].image} \cup {p \o content[2].image : p \in KnownPrefixes}
                 /\ \A p \in KnownPrefixes : ~StartsWith(content[2].image, p)
                 /\ args.model = [provider |-> module.aiClient.provider,
                                  modelId |-> module.MODEL,
                                  apiKey |-> module.aiClient.apiKey,
                                  baseURL |-> module.aiClient.baseURL]
                 /\ provider[c].requests[i].fn = "generateObject" =>
                       LET text == getImageTextArgs(calls[c].imageBase64, calls[c].query)
                       IN args.model = text.model /\ args.messages = text.messages

\* a structured request and a text request were issued for prefixed payloads
C6_Witness ==
    \E c, d \in CallIds :
        /\ provider[c].requests # <<>>
        /\ provider[c].requests[1].fn = "generateObject"
        /\ \E p \in KnownPrefixes : StartsWith(calls[c].imageBase64, p)
        /\ provider[d].requests # <<>>
        /\ provider[d].requests[1].fn \in {"streamText", "generateText"}
        /\ \E p \in KnownPrefixes : StartsWith(calls[d].imageBase64, p)

\* C10: a streamable value that was returned and whose fragment loop is not running
\* (never started, ended, or failed) has been finalised.
C10_StreamFinalised ==
    \A c \in CallIds :
        (calls[c].op = "stream" /\ calls[c].pc = "resolved"
            /\ provider[c].task # "iterating") =>
                streams[c].done >= 1

====
